---- MODULE Spec2Model ----
(***************************************************************************)
(* A model of src/dataset.py: the HMDB51 video-clip dataset (class         *)
(* discovery, sample list, clip collection, item access) and the           *)
(* BuildDataLoader wrapper (collation and batch iteration).                *)
(*                                                                         *)
(* Strings are sequences of code points, so that Python's string order     *)
(* (code point by code point, a proper prefix first) is computed and not   *)
(* assumed.  Python indices are 0-based and kept so; a TLA+ sequence is    *)
(* read at index + 1.                                                      *)
(*                                                                         *)
(* torchvision's VideoClips and torch's DataLoader are the libraries the   *)
(* source calls; the operators that stand for them are written after the   *)
(* library routines of the same name and are mapped to the lines of        *)
(* src/dataset.py that call them.                                          *)
(***************************************************************************)
EXTENDS Integers, Sequences, FiniteSets, TLC

(***************************** bounds **************************************)
\* Entries chosen freely in a directory tree (their parent directories are added).
MaxNodes == 2
\* Clips the clip-indexing utility derives from one video file.
MaxClips == 2
\* Largest batch size given to BuildDataLoader.
MaxBatch == 2
\* Largest dataset length over which loaders are iterated.
MaxLen == 3
\* Negative indices tried on item(): -1 down to -MaxBelow.
MaxBelow == 2

(***************************** strings *************************************)
Slash == <<47>>
ClsB == <<66>>
ClsA == <<97>>
SubS == <<115>>
FileX == <<120>>
DATA_FOLDER == <<100>>
StrTrain == <<47, 116, 114, 97, 105, 110>>
StrTest == <<47, 116, 101, 115, 116>>

ClassNames == {ClsB, ClsA}
FileNames == {FileX}
Shapes == {<<2, 2>>, <<2, 3>>}
Transforms == {"None", "flip"}

\* Python's < on str: the first differing code point decides, a proper prefix is smaller.
RECURSIVE StrLess(_, _)
StrLess(s, t) ==
    IF t = <<>> THEN FALSE
    ELSE IF s = <<>> THEN TRUE
    ELSE IF s[1] # t[1] THEN s[1] < t[1]
    ELSE StrLess(Tail(s), Tail(t))

IsPrefix(p, s) == Len(p) <= Len(s) /\ SubSeq(s, 1, Len(p)) = p

\* sorted(xs) for distinct strings: ascending in Python's str order.
RECURSIVE sorted(_)
sorted(S) ==
    IF S = {} THEN <<>>
    ELSE LET m == CHOOSE x \in S : \A y \in S \ {x} : StrLess(x, y)
         IN  <<m>> \o sorted(S \ {m})

\* os.path.join(a, b) for a relative b.
join(a, b) == a \o Slash \o b

RECURSIVE Flatten(_)
Flatten(ss) == IF ss = <<>> THEN <<>> ELSE Head(ss) \o Flatten(Tail(ss))

Range(f) == {f[i] : i \in DOMAIN f}

(***************************** the directory tree **************************)
\* A node of the tree: a directory, a regular file or another entry (a broken
\* link, a socket); clips and shape are what the clip-indexing utility reads
\* from a regular file: how many clips it cuts from it, and its frame shape.
NodePath(n) == join(n.dir, n.name)

SplitRoots == {DATA_FOLDER \o StrTrain, DATA_FOLDER \o StrTest}

ClassDirSlots == {[dir |-> sp, name |-> c] : sp \in SplitRoots, c \in ClassNames}

DirSlots ==
    ClassDirSlots
    \cup {[dir |-> join(sp, c), name |-> SubS] : sp \in SplitRoots, c \in ClassNames}

FileSlots ==
    {[dir |-> sp, name |-> f] : sp \in SplitRoots, f \in FileNames}
    \cup {[dir |-> join(sp, c), name |-> f] :
              sp \in SplitRoots, c \in ClassNames, f \in FileNames}
    \cup {[dir |-> join(join(sp, c), SubS), name |-> f] :
              sp \in SplitRoots, c \in ClassNames, f \in FileNames}

Ancestors(s) == {d \in DirSlots : IsPrefix(NodePath(d) \o Slash, NodePath(s))}

RECURSIVE SubsetsUpTo(_, _)
SubsetsUpTo(S, k) ==
    IF k = 0 THEN {{}}
    ELSE LET prev == SubsetsUpTo(S, k - 1)
         IN  prev \cup {T \cup {x} : T \in prev, x \in S}

FileAttrs(shapes) ==
    {[kind |-> "other", clips |-> 0, shape |-> <<>>]}
    \cup {[kind |-> "file", clips |-> c, shape |-> sh] : c \in 0..MaxClips, sh \in shapes}

DirNode(s) == [dir |-> s.dir, name |-> s.name, kind |-> "dir", clips |-> 0, shape |-> <<>>]
FileNode(s, a) ==
    [dir |-> s.dir, name |-> s.name, kind |-> a.kind, clips |-> a.clips, shape |-> a.shape]

\* The trees of the model: at most MaxNodes entries chosen among the class
\* directories and the files, with their parent directories.
Trees ==
    UNION {
        LET dirs == (chosen \cap DirSlots) \cup UNION {Ancestors(s) : s \in chosen}
            files == chosen \cap FileSlots
        IN  {{DirNode(d) : d \in dirs} \cup {FileNode(f, attr[f]) : f \in files} :
                 attr \in [files -> FileAttrs({<<2, 2>>})]}
        : chosen \in SubsetsUpTo(ClassDirSlots \cup FileSlots, MaxNodes)}

(***************************** tensors *************************************)
\* A clip tensor: its shape, the file and clip it was decoded from, and the
\* transforms applied to it, in order.
NoTensor == [shape |-> <<>>, src |-> <<>>, clip |-> 0, tf |-> <<>>]

\* transform(video): the caller's callable, recorded on the tensor.
ApplyTransform(t, video) == [video EXCEPT !.tf = Append(@, t)]

\* torch.stack(tensors): a new leading dimension; an empty list or tensors of
\* different shapes raise RuntimeError.
torch_stack(tensors) ==
    IF tensors = <<>> \/ \E i \in DOMAIN tensors : tensors[i].shape # tensors[1].shape
    THEN [exc |-> "RuntimeError", shape |-> <<>>, items |-> <<>>]
    ELSE [exc |-> "None", shape |-> <<Len(tensors)>> \o tensors[1].shape, items |-> tensors]

(***************************** the clip collection *************************)
RECURSIVE cumsum(_, _)
cumsum(xs, acc) ==
    IF xs = <<>> THEN <<>> ELSE <<acc + Head(xs)>> \o cumsum(Tail(xs), acc + Head(xs))

\* bisect.bisect_right(a, x) on an ascending list: how many elements are <= x.
bisect_right(a, x) == Cardinality({i \in DOMAIN a : a[i] <= x})

\* What the utility reads from the file at a path: the clips it cuts, the frame shape.
ReadVideo(tree, path) ==
    LET n == CHOOSE m \in tree : NodePath(m) = path
    IN  [clips |-> n.clips, shape |-> n.shape]

\* VideoClips built from metadata: the clips of each video and their running total.
VideoClipsOf(metadata) ==
    LET clips == [i \in DOMAIN metadata.video_pts |-> metadata.video_pts[i].clips]
    IN  [video_paths |-> metadata.video_paths,
         video_pts |-> metadata.video_pts,
         clips |-> clips,
         cumulative_sizes |-> cumsum(clips, 0)]

\* VideoClips(video_paths, ...): every file is scanned, then as from metadata.
VideoClips(tree, video_paths) ==
    VideoClipsOf([video_paths |-> video_paths,
                  video_pts |-> [i \in DOMAIN video_paths |-> ReadVideo(tree, video_paths[i])]])

VideoClips_metadata(vc) == [video_paths |-> vc.video_paths, video_pts |-> vc.video_pts]

\* video_clips.subset(indices): the videos at those indices, in that order.
subset(vc, indices) ==
    VideoClipsOf([video_paths |-> [k \in DOMAIN indices |-> vc.video_paths[indices[k] + 1]],
                  video_pts |-> [k \in DOMAIN indices |-> vc.video_pts[indices[k] + 1]]])

\* video_clips.num_clips(): cumulative_sizes[-1], an IndexError on an empty list.
num_clips(vc) ==
    IF vc.cumulative_sizes = <<>>
    THEN [exc |-> "IndexError", val |-> 0]
    ELSE [exc |-> "None", val |-> vc.cumulative_sizes[Len(vc.cumulative_sizes)]]

\* video_clips.get_clip(idx): IndexError when idx >= num_clips(); the video is
\* found by bisect_right over the running totals and the clip is read at
\* clips[video_idx][clip_idx], where Python accepts -n <= clip_idx < n.
get_clip(vc, idx) ==
    LET n == num_clips(vc)
        video_idx == bisect_right(vc.cumulative_sizes, idx)
        clip_idx == IF video_idx = 0 THEN idx ELSE idx - vc.cumulative_sizes[video_idx]
        fail == [exc |-> "IndexError", video |-> NoTensor, video_idx |-> 0]
    IN  IF n.exc # "None" THEN fail
        ELSE IF idx >= n.val THEN fail
        ELSE LET count == vc.clips[video_idx + 1]
             IN  IF clip_idx >= count \/ clip_idx < 0 - count THEN fail
                 ELSE [exc |-> "None",
                       video |-> [shape |-> vc.video_pts[video_idx + 1].shape,
                                  src |-> vc.video_paths[video_idx + 1],
                                  clip |-> IF clip_idx < 0 THEN clip_idx + count ELSE clip_idx,
                                  tf |-> <<>>],
                       video_idx |-> video_idx]

(***************************** HMDB51 **************************************)
None == [type |-> "NoneType"]

\* list_dir(root): the names of the directories directly under root.
list_dir(tree, root) == {n.name : n \in {m \in tree : m.dir = root /\ m.kind = "dir"}}

\* A slip: enumerate(classes, 1), the indices counted from one.
class_to_idx_from_one(classes) ==
    [c \in Range(classes) |-> CHOOSE i \in DOMAIN classes : classes[i] = c]

\* class_to_idx = {class_: i for (i, class_) in enumerate(classes)}
class_to_idx_of(classes) ==
    [c \in Range(classes) |-> (CHOOSE i \in DOMAIN classes : classes[i] = c) - 1]

\* os.walk(target_dir, followlinks=True): one (root_curr, fnames) per directory
\* at or below target_dir, fnames the entries of it that are not directories.
walk(tree, target_dir) ==
    LET below == {NodePath(n) : n \in {m \in tree :
                      m.kind = "dir" /\ (NodePath(m) = target_dir
                                         \/ IsPrefix(target_dir \o Slash, NodePath(m)))}}
    IN  [root_curr \in below |->
             {n.name : n \in {m \in tree : m.dir = root_curr /\ m.kind # "dir"}}]

isfile(tree, path) == \E n \in tree : NodePath(n) = path /\ n.kind = "file"

\* The inner loops of __init__ for one directory: (path, class_index) for every
\* regular file, in sorted(fnames) order.
DirSamples(tree, root_curr, fnames, class_index) ==
    LET names == sorted(fnames)
        paths == [i \in DOMAIN names |-> join(root_curr, names[i])]
        items == [i \in DOMAIN paths |-> <<paths[i], class_index>>]
    IN  SelectSeq(items, LAMBDA item : isfile(tree, item[1]))

\* The loop of __init__ over one class: its directories in sorted order.
ClassSamples(tree, root, target_class, class_index) ==
    LET target_dir == join(root, target_class)
        w == walk(tree, target_dir)
        roots == sorted(DOMAIN w)
    IN  Flatten([i \in DOMAIN roots |-> DirSamples(tree, roots[i], w[roots[i]], class_index)])

\* A slip: the last video left out of the index mapping.
get_indices_short(video_list) == [k \in 1..(Len(video_list) - 1) |-> k - 1]

\* HMDB51.get_indices(video_list)
get_indices(video_list) == [k \in DOMAIN video_list |-> k - 1]

\* HMDB51.__init__(root, frames_per_clip, train=..., transform=...)
HMDB51_init(tree, root_arg, train, transform) ==
    LET root == IF train THEN root_arg \o StrTrain ELSE root_arg \o StrTest
        classes == sorted(list_dir(tree, root))
        class_to_idx == class_to_idx_of(classes)
        keys == sorted(DOMAIN class_to_idx)
        samples == Flatten([i \in DOMAIN keys |->
                        ClassSamples(tree, root, keys[i], class_to_idx[keys[i]])])
        video_paths == [i \in DOMAIN samples |-> samples[i][1]]
        video_clips == VideoClips(tree, video_paths)
        indices == get_indices(video_paths)
    IN  [type |-> "HMDB51",
         root |-> root_arg,
         samples |-> samples,
         train |-> train,
         classes |-> classes,
         video_clips_metadata |-> VideoClips_metadata(video_clips),
         indices |-> indices,
         video_clips |-> subset(video_clips, indices),
         transform |-> transform]

\* HMDB51.metadata
HMDB51_metadata(self) == [exc |-> "None", val |-> self.video_clips_metadata, self |-> self]

\* A slip: the videos counted, not their clips.
HMDB51_len_videos(self) == [exc |-> "None", val |-> Len(self.samples), self |-> self]

\* HMDB51.__len__
HMDB51_len(self) ==
    LET n == num_clips(self.video_clips)
    IN  [exc |-> n.exc, val |-> n.val, self |-> self]

\* A slip: the sample looked up by the clip's index, not by its video's.
HMDB51_getitem_by_clip(self, idx) ==
    LET r == get_clip(self.video_clips, idx)
    IN  IF r.exc # "None" \/ idx + 1 \notin DOMAIN self.indices
        THEN [exc |-> "IndexError", video |-> NoTensor, label |-> 0 - 1, calls |-> 0,
              self |-> self]
        ELSE [exc |-> "None",
              video |-> IF self.transform # "None"
                        THEN ApplyTransform(self.transform, r.video) ELSE r.video,
              label |-> self.samples[self.indices[idx + 1] + 1][2],
              calls |-> IF self.transform # "None" THEN 1 ELSE 0,
              self |-> self]

\* HMDB51.__getitem__(idx): calls is the transform calls made.
HMDB51_getitem(self, idx) ==
    LET r == get_clip(self.video_clips, idx)
    IN  IF r.exc # "None"
        THEN [exc |-> r.exc, video |-> NoTensor, label |-> 0 - 1, calls |-> 0, self |-> self]
        ELSE LET sample_index == self.indices[r.video_idx + 1]
                 class_index == self.samples[sample_index + 1][2]
             IN  IF self.transform # "None"
                 THEN [exc |-> "None", video |-> ApplyTransform(self.transform, r.video),
                       label |-> class_index, calls |-> 1, self |-> self]
                 ELSE [exc |-> "None", video |-> r.video,
                       label |-> class_index, calls |-> 0, self |-> self]

(***************************** BuildDataLoader *****************************)
NumWorkers == {0, 2}
LoaderIds == {1, 2}

\* BuildDataLoader.__init__(dataset, batch_size, shuffle, num_workers): the
\* dataset is held by reference (there is one dataset object, ds).
BuildDataLoader_init(dataset, batch_size, shuffle, num_workers) ==
    [type |-> "BuildDataLoader",
     dataset |-> dataset,
     batch_size |-> batch_size,
     shuffle |-> shuffle,
     num_workers |-> num_workers]

\* A slip: label_list.insert(0, index), the labels in reverse.
collect_fn_reversed(self, batch) ==
    LET video_list == [i \in DOMAIN batch |-> batch[i][1]]
        label_list == [i \in DOMAIN batch |-> batch[Len(batch) + 1 - i][2]]
        stacked == torch_stack(video_list)
    IN  IF stacked.exc # "None"
        THEN [exc |-> stacked.exc, data |-> <<>>, self |-> self]
        ELSE [exc |-> "None",
              data |-> [videos |-> stacked, labels |-> label_list],
              self |-> self]

\* A slip: the wrapper's batch size overwritten with the size of the batch in hand.
collect_fn_resizing(self, batch) ==
    LET video_list == [i \in DOMAIN batch |-> batch[i][1]]
        label_list == [i \in DOMAIN batch |-> batch[i][2]]
        stacked == torch_stack(video_list)
        resized == [self EXCEPT !.batch_size = Len(batch)]
    IN  IF stacked.exc # "None"
        THEN [exc |-> stacked.exc, data |-> <<>>, self |-> resized]
        ELSE [exc |-> "None",
              data |-> [videos |-> stacked, labels |-> label_list],
              self |-> resized]

\* BuildDataLoader.collect_fn(batch)
collect_fn(self, batch) ==
    LET video_list == [i \in DOMAIN batch |-> batch[i][1]]
        label_list == [i \in DOMAIN batch |-> batch[i][2]]
        stacked == torch_stack(video_list)
    IN  IF stacked.exc # "None"
        THEN [exc |-> stacked.exc, data |-> <<>>, self |-> self]
        ELSE [exc |-> "None",
              data |-> [videos |-> stacked, labels |-> label_list],
              self |-> self]

(***************************** torch DataLoader ****************************)
NoIter == [status |-> "none", order |-> <<>>, pos |-> 0, fetched |-> <<>>, out |-> <<>>,
           exc |-> "None"]

\* DataLoader(dataset, batch_size, shuffle, num_workers, collate_fn): with
\* shuffle a RandomSampler is built, which reads len(dataset) and refuses an
\* empty dataset unless the installed version accepts one (empty_ok).
DataLoader(dataset, batch_size, shuffle, num_workers, drop_last, empty_ok) ==
    LET n == HMDB51_len(dataset)
        dl == [batch_size |-> batch_size, shuffle |-> shuffle,
               num_workers |-> num_workers, drop_last |-> drop_last, it |-> NoIter]
    IN  IF shuffle /\ n.exc # "None" THEN [exc |-> n.exc, dl |-> dl]
        ELSE IF shuffle /\ n.val = 0 /\ ~empty_ok THEN [exc |-> "ValueError", dl |-> dl]
        ELSE [exc |-> "None", dl |-> dl]

\* The index orders a sampler can produce over n items: range(n) for a
\* SequentialSampler, any permutation of it for a RandomSampler.
SamplerOrders(shuffle, n) ==
    IF shuffle
    THEN {p \in [1..n -> 0..(n - 1)] : \A i, j \in 1..n : i # j => p[i] # p[j]}
    ELSE {[i \in 1..n |-> i - 1]}

\* The fetcher: dataset[i] for each index of a batch, in order; the first
\* exception ends it.
RECURSIVE Fetch(_, _)
Fetch(self, idxs) ==
    IF idxs = <<>> THEN [exc |-> "None", items |-> <<>>, self |-> self]
    ELSE LET r == HMDB51_getitem(self, Head(idxs))
         IN  IF r.exc # "None" THEN [exc |-> r.exc, items |-> <<>>, self |-> r.self]
             ELSE LET rest == Fetch(r.self, Tail(idxs))
                  IN  [exc |-> rest.exc,
                       items |-> <<(<<r.video, r.label>>)>> \o rest.items,
                       self |-> rest.self]

Min(a, b) == IF a <= b THEN a ELSE b

(***************************** state ***************************************)
VARIABLES
    fs,        \* the directory tree under DATA_FOLDER
    batch_in,  \* the batch handed to collect_fn when it is called directly
    ds,        \* the HMDB51 object, None before it is constructed
    bdl,       \* the BuildDataLoader object, None before it is constructed
    dls,       \* the DataLoader objects returned by loader(), in call order
    ret        \* what the last direct call returned or raised

vars == <<fs, batch_in, ds, bdl, dls, ret>>

\* A slip: drop_last=True, a short last batch is not produced.
loader_drop_last(empty_ok) ==
    DataLoader(ds, bdl.batch_size, bdl.shuffle, bdl.num_workers, TRUE, empty_ok)

\* A slip: the loader made last is kept and handed out again, as it stands.
loader_cached(empty_ok) ==
    IF dls # <<>>
    THEN [exc |-> "None", dl |-> dls[Len(dls)]]
    ELSE DataLoader(ds, bdl.batch_size, bdl.shuffle, bdl.num_workers, FALSE, empty_ok)

\* BuildDataLoader.loader(): a new DataLoader over self.dataset.
loader(empty_ok) ==
    DataLoader(ds, bdl.batch_size, bdl.shuffle, bdl.num_workers, FALSE, empty_ok)

(***************************** inputs **************************************)
TrainB == [dir |-> DATA_FOLDER \o StrTrain, name |-> ClsB]
TrainA == [dir |-> DATA_FOLDER \o StrTrain, name |-> ClsA]
TrainBX == [dir |-> NodePath(TrainB), name |-> FileX]
TrainAX == [dir |-> NodePath(TrainA), name |-> FileX]

TotalClips(tree) ==
    LET files == {n \in tree : n.kind = "file"}
        RECURSIVE Sum(_)
        Sum(S) == IF S = {} THEN 0
                  ELSE LET n == CHOOSE m \in S : TRUE IN n.clips + Sum(S \ {n})
    IN  Sum(files)

\* The trees loaders are iterated over: two classes under train, each with at
\* most one entry, of either frame shape, and at most MaxLen clips in all.
LoaderTrees ==
    {t \in UNION {
        {{DirNode(TrainB), DirNode(TrainA)} \cup {FileNode(f, attr[f]) : f \in files} :
             attr \in [files -> FileAttrs(Shapes)]}
        : files \in SUBSET {TrainBX, TrainAX}} : TotalClips(t) <= MaxLen}

\* The trees every operation is run over together: one class, at most one entry.
SmallTrees == {t \in LoaderTrees : \A n \in t : n.kind # "dir" => n.dir = NodePath(TrainB)}

\* The (clip, label) pairs and batches collect_fn is called on directly.
Pairs ==
    {<<[shape |-> sh, src |-> NodePath(f), clip |-> 0, tf |-> <<>>], label>> :
         sh \in Shapes, f \in {TrainBX, TrainAX}, label \in {0, 1}}

Batches == UNION {[1..n -> Pairs] : n \in 0..MaxBatch}

SmallBatch ==
    <<(<<[shape |-> <<2, 2>>, src |-> NodePath(TrainBX), clip |-> 0, tf |-> <<>>], 0>>),
      (<<[shape |-> <<2, 2>>, src |-> NodePath(TrainBX), clip |-> 1, tf |-> <<>>], 0>>)>>

ItemIndices(self) ==
    LET n == num_clips(self.video_clips)
    IN  (0 - MaxBelow)..(IF n.exc = "None" THEN n.val ELSE 0)

(***************************** actions *************************************)
NoRet == [op |-> "none"]

Start(trees, batches) ==
    /\ fs \in trees
    /\ batch_in \in batches
    /\ ds = None
    /\ bdl = None
    /\ dls = <<>>
    /\ ret = NoRet

\* train_dataset = HMDB51(DATA_FOLDER, frames_per_clip=5, train=..., transform=...)
Construct ==
    /\ ds = None
    /\ \E train \in BOOLEAN, transform \in Transforms :
           ds' = HMDB51_init(fs, DATA_FOLDER, train, transform)
    /\ UNCHANGED <<fs, batch_in, bdl, dls, ret>>

\* len(dataset)
Length ==
    /\ ds # None
    /\ LET r == HMDB51_len(ds)
       IN  /\ ret' = [op |-> "len", exc |-> r.exc, val |-> r.val]
           /\ ds' = r.self
    /\ UNCHANGED <<fs, batch_in, bdl, dls>>

\* dataset[idx]
Item ==
    /\ ds # None
    /\ \E idx \in ItemIndices(ds) :
           LET r == HMDB51_getitem(ds, idx)
           IN  /\ ret' = [op |-> "item", idx |-> idx, exc |-> r.exc, video |-> r.video,
                          label |-> r.label, calls |-> r.calls]
               /\ ds' = r.self
    /\ UNCHANGED <<fs, batch_in, bdl, dls>>

\* dataset.metadata
Metadata ==
    /\ ds # None
    /\ LET r == HMDB51_metadata(ds)
       IN  /\ ret' = [op |-> "metadata", exc |-> r.exc, val |-> r.val]
           /\ ds' = r.self
    /\ UNCHANGED <<fs, batch_in, bdl, dls>>

\* BuildDataLoader(dataset, batch_size=..., shuffle=..., num_workers=...)
BuildLoader ==
    /\ ds # None
    /\ bdl = None
    /\ \E batch_size \in 1..MaxBatch, shuffle \in BOOLEAN, num_workers \in NumWorkers :
           bdl' = BuildDataLoader_init("ds", batch_size, shuffle, num_workers)
    /\ UNCHANGED <<fs, batch_in, ds, dls, ret>>

\* build_loader.collect_fn(batch)
Collate ==
    /\ bdl # None
    /\ LET r == collect_fn(bdl, batch_in)
       IN  /\ ret' = [op |-> "collate", exc |-> r.exc, data |-> r.data]
           /\ bdl' = r.self
    /\ UNCHANGED <<fs, batch_in, ds, dls>>

\* build_loader.loader(), called when `called` loaders were made before.
LoaderCall(called) ==
    /\ bdl # None
    /\ Len(dls) = called
    /\ \E empty_ok \in BOOLEAN :
           LET r == loader(empty_ok)
           IN  IF r.exc # "None"
               THEN ret' = [op |-> "loader", exc |-> r.exc] /\ dls' = dls
               ELSE ret' = ret /\ dls' = Append(dls, r.dl)
    /\ UNCHANGED <<fs, batch_in, ds, bdl>>

Loader == LoaderCall(0)
LoaderAgain == \E called \in LoaderIds : called + 1 \in LoaderIds /\ LoaderCall(called)

\* iter(data_loader): a new pass, started when none of this loader is under
\* way; the sampler reads len(dataset) and fixes its order.
Iter(h) ==
    /\ h \in DOMAIN dls
    /\ dls[h].it.status # "active"
    /\ LET n == HMDB51_len(ds)
       IN  IF n.exc # "None"
           THEN dls' = [dls EXCEPT ![h].it =
                            [NoIter EXCEPT !.status = "failed", !.exc = n.exc]]
           ELSE \E order \in SamplerOrders(dls[h].shuffle, n.val) :
                    dls' = [dls EXCEPT ![h].it =
                                [NoIter EXCEPT !.status = "active", !.order = order]]
    /\ UNCHANGED <<fs, batch_in, ds, bdl, ret>>

\* next(iterator): the batch sampler takes the next batch_size indices (fewer
\* at the end, none of a short batch under drop_last), the fetcher reads the
\* items and collate_fn merges them.  Worker processes (num_workers > 0) read
\* from their own copy of the dataset.
IterNext(h) ==
    /\ h \in DOMAIN dls
    /\ dls[h].it.status = "active"
    /\ LET dl == dls[h]
           it == dl.it
           n == Len(it.order)
           left == n - it.pos
       IN  IF left = 0 \/ (dl.drop_last /\ left < dl.batch_size)
           THEN /\ dls' = [dls EXCEPT ![h].it.status = "done"]
                /\ UNCHANGED <<ds, bdl>>
           ELSE LET idxs == SubSeq(it.order, it.pos + 1, Min(it.pos + dl.batch_size, n))
                    f == Fetch(ds, idxs)
                    c == collect_fn(bdl, f.items)
                    local == dl.num_workers = 0
                IN  IF f.exc # "None"
                    THEN /\ dls' = [dls EXCEPT ![h].it.status = "failed",
                                               ![h].it.exc = f.exc]
                         /\ ds' = IF local THEN f.self ELSE ds
                         /\ UNCHANGED bdl
                    ELSE IF c.exc # "None"
                    THEN /\ dls' = [dls EXCEPT ![h].it.status = "failed",
                                               ![h].it.exc = c.exc]
                         /\ ds' = IF local THEN f.self ELSE ds
                         /\ bdl' = IF local THEN c.self ELSE bdl
                    ELSE /\ dls' = [dls EXCEPT ![h].it.pos = it.pos + Len(idxs),
                                               ![h].it.fetched = it.fetched \o idxs,
                                               ![h].it.out = Append(it.out, c.data)]
                         /\ ds' = IF local THEN f.self ELSE ds
                         /\ bdl' = IF local THEN c.self ELSE bdl
    /\ UNCHANGED <<fs, batch_in, ret>>

(***************************** specifications ******************************)
\* The dataset alone, over every tree of the model.
Init == Start(Trees, {<<>>})
Next == Construct \/ Length \/ Item \/ Metadata
Spec == Init /\ [][Next]_vars

\* collect_fn alone, over every batch of the model.
InitCollate == Start({{DirNode(TrainB)}}, Batches)
NextCollate == Construct \/ BuildLoader \/ Collate
SpecCollate == InitCollate /\ [][NextCollate]_vars

\* One loader of a dataset, over trees of two classes.
InitLoader == Start(LoaderTrees, {<<>>})
NextLoader ==
    \/ Construct \/ BuildLoader \/ Loader
    \/ \E h \in LoaderIds : Iter(h)
    \/ \E h \in LoaderIds : IterNext(h)
SpecLoader == InitLoader /\ [][NextLoader]_vars

\* Several loaders of a dataset, over trees of one class.
InitFresh == Start(SmallTrees, {<<>>})
NextFresh ==
    \/ Construct \/ BuildLoader \/ Loader \/ LoaderAgain
    \/ \E h \in LoaderIds : Iter(h)
    \/ \E h \in LoaderIds : IterNext(h)
SpecFresh == InitFresh /\ [][NextFresh]_vars

\* Every operation, over trees of one class.
InitAll == Start(SmallTrees, {SmallBatch})
NextAll ==
    \/ Construct \/ Length \/ Item \/ Metadata \/ BuildLoader \/ Collate
    \/ Loader \/ LoaderAgain
    \/ \E h \in LoaderIds : Iter(h)
    \/ \E h \in LoaderIds : IterNext(h)
SpecAll == InitAll /\ [][NextAll]_vars

(***************************** properties **********************************)
\* The split directory a constructed dataset reads.
ActiveRoot(self) == IF self.train THEN self.root \o StrTrain ELSE self.root \o StrTest

\* The clips of a constructed dataset as its clip collection counts them; -1
\* when the collection holds no video and cannot say.
ClipCount(self) ==
    LET n == num_clips(self.video_clips) IN IF n.exc = "None" THEN n.val ELSE 0 - 1

RECURSIVE SumSeq(_)
SumSeq(xs) == IF xs = <<>> THEN 0 ELSE Head(xs) + SumSeq(Tail(xs))

Ceil(a, b) == (a + b - 1) \div b

\* ---- C1 ----
\* An item was returned, and its label is that of the sample whose file its
\* clip was cut from.
LabelOfSource(self, r) ==
    /\ r.exc = "None"
    /\ \E k \in DOMAIN self.samples : self.samples[k][1] = r.video.src
    /\ \A k \in DOMAIN self.samples :
           self.samples[k][1] = r.video.src => self.samples[k][2] = r.label

\* C1: for every index i with 0 <= i < length(), item(i) succeeds and its label
\* is the class index of the sample whose file the clip collection produced
\* clip i from; the same holds of what a call of item(i) returned.
C1_ItemLabel ==
    ds # None =>
        /\ \A i \in 0..(ClipCount(ds) - 1) : LabelOfSource(ds, HMDB51_getitem(ds, i))
        /\ (ret.op = "item" /\ ret.idx >= 0 /\ ret.idx < ClipCount(ds))
               => LabelOfSource(ds, ret)

\* A call of item(2) answered with the first clip of the second video, of class 1.
C1_Witness ==
    /\ ds # None
    /\ ret.op = "item" /\ ret.exc = "None"
    /\ ret.idx = 2 /\ ret.video.clip = 0 /\ ret.label = 1
    /\ Len(ds.samples) = 2

\* ---- C2 ----
\* C2: the classes of a constructed dataset are the directories directly under
\* the active split directory, in ascending code-point order (an upper-case
\* name before a lower-case one); the class-to-index map sends the k-th of
\* them to k, one-to-one onto 0..n-1 and increasing in that order; and every
\* sample's label is the index of the class directory its file lies in.
C2_ClassIndex ==
    ds # None =>
        LET names == list_dir(fs, ActiveRoot(ds))
            n == Cardinality(names)
            c2i == class_to_idx_of(ds.classes)
        IN  /\ Len(ds.classes) = n
            /\ Range(ds.classes) = names
            /\ \A i, j \in 1..n : i < j => StrLess(ds.classes[i], ds.classes[j])
            /\ ({ClsA, ClsB} \subseteq names) => c2i[ClsB] < c2i[ClsA]
            /\ DOMAIN c2i = names
            /\ {c2i[c] : c \in names} = 0..(n - 1)
            /\ \A k \in 1..n : c2i[ds.classes[k]] = k - 1
            /\ \A c, d \in names : StrLess(c, d) => c2i[c] < c2i[d]
            /\ \A k \in DOMAIN ds.samples :
                   LET label == ds.samples[k][2]
                   IN  /\ label \in 0..(n - 1)
                       /\ IsPrefix(join(ActiveRoot(ds), ds.classes[label + 1]) \o Slash,
                                   ds.samples[k][1])

\* Two classes, "B" before "a", and a sample labelled with each.
C2_Witness ==
    /\ ds # None
    /\ ds.classes = <<ClsB, ClsA>>
    /\ \E j, k \in DOMAIN ds.samples : ds.samples[j][2] = 0 /\ ds.samples[k][2] = 1

\* ---- C3 ----
\* C3: the clip collection of a constructed dataset holds every discovered
\* file, in order, and length() answers as the clip-indexing utility does for
\* the full list of them: with the sum of their clips, and with the same
\* IndexError when no file was discovered; the same holds of what a call of
\* length() returned.
C3_Length ==
    ds # None =>
        LET video_paths == [k \in DOMAIN ds.samples |-> ds.samples[k][1]]
            full == num_clips(VideoClips(fs, video_paths))
            total == SumSeq([k \in DOMAIN video_paths |-> ReadVideo(fs, video_paths[k]).clips])
            r == HMDB51_len(ds)
        IN  /\ ds.video_clips.video_paths = video_paths
            /\ r.exc = full.exc
            /\ r.exc = "None" => r.val = full.val /\ r.val = total
            /\ (r.exc # "None") <=> (video_paths = <<>>)
            /\ ret.op = "len" => ret.exc = r.exc /\ (ret.exc = "None" => ret.val = total)

\* length() returned 3 for two files of two clips and one.
C3_Witness ==
    /\ ds # None
    /\ ret.op = "len" /\ ret.exc = "None" /\ ret.val = 3
    /\ Len(ds.samples) = 2
    /\ ds.video_clips.clips = <<2, 1>>

\* ---- C4 ----
SameShape(batch) == \A i \in DOMAIN batch : batch[i][1].shape = batch[1][1].shape

Passing(h) == dls[h].it.status \in {"active", "done"}

BatchLabels(out) == Flatten([k \in DOMAIN out |-> out[k].labels])
BatchVideos(out) == Flatten([k \in DOMAIN out |-> out[k].videos.items])

\* The batches yielded so far are the items of the indices fetched so far.
YieldsFetched(it) ==
    /\ BatchLabels(it.out) = [i \in DOMAIN it.fetched |-> HMDB51_getitem(ds, it.fetched[i]).label]
    /\ BatchVideos(it.out) = [i \in DOMAIN it.fetched |-> HMDB51_getitem(ds, it.fetched[i]).video]

\* C5: without shuffle, a pass fetches the indices 0, 1, 2, ... in ascending
\* order, the k-th batch holds the next batch_size of them (fewer at the end),
\* the batches yielded are item(0), item(1), ... in that order, and a pass that
\* has ended has fetched every index below length().
C5_Sequential ==
    \A h \in DOMAIN dls :
        (~dls[h].shuffle /\ Passing(h)) =>
            LET it == dls[h].it
                bs == dls[h].batch_size
                n == ClipCount(ds)
            IN  /\ it.fetched = [i \in 1..it.pos |-> i - 1]
                /\ it.pos <= n
                /\ \A k \in DOMAIN it.out :
                       it.out[k].labels =
                           [j \in 1..(Min(k * bs, n) - (k - 1) * bs) |->
                                HMDB51_getitem(ds, (k - 1) * bs + j - 1).label]
                /\ YieldsFetched(it)
                /\ it.status = "done" => it.pos = n

\* An unshuffled pass over three clips in batches of two has ended.
C5_Witness ==
    \E h \in DOMAIN dls :
        /\ ~dls[h].shuffle /\ dls[h].it.status = "done"
        /\ dls[h].batch_size = 2
        /\ dls[h].it.fetched = <<0, 1, 2>>
        /\ Len(dls[h].it.out) = 2
        /\ BatchLabels(dls[h].it.out) = <<0, 0, 1>>

\* C6: with shuffle, a pass fetches no index twice and none outside
\* 0..length()-1, the batches yielded are the items of the indices fetched, and
\* a pass that has ended has fetched every index: a permutation of them.
C6_Shuffled ==
    \A h \in DOMAIN dls :
        (dls[h].shuffle /\ Passing(h)) =>
            LET it == dls[h].it
                n == ClipCount(ds)
            IN  /\ \A i, j \in DOMAIN it.fetched : i # j => it.fetched[i] # it.fetched[j]
                /\ Range(it.fetched) \subseteq 0..(n - 1)
                /\ YieldsFetched(it)
                /\ it.status = "done" =>
                       Len(it.fetched) = n /\ Range(it.fetched) = 0..(n - 1)

\* A shuffled pass over three clips has ended, out of index order.
C6_Witness ==
    \E h \in DOMAIN dls :
        /\ dls[h].shuffle /\ dls[h].it.status = "done"
        /\ dls[h].it.fetched = <<2, 0, 1>>
        /\ ClipCount(ds) = 3

BatchSizeOf(batch) == Len(batch.labels)

\* A pass that has fetched pos indices has yielded ceil(pos / batch_size)
\* batches, never more than ceil(length() / batch_size); every batch yielded
\* holds batch_size items, but for a last one of 1 to batch_size items that
\* exhausts the indices; and a pass that has ended has yielded exactly
\* ceil(length() / batch_size) batches.
BatchCounts ==
    \A h \in DOMAIN dls :
        Passing(h) =>
            LET it == dls[h].it
                bs == dls[h].batch_size
                n == ClipCount(ds)
            IN  /\ Len(it.out) = Ceil(it.pos, bs)
                /\ Len(it.out) <= Ceil(n, bs)
                /\ \A k \in DOMAIN it.out :
                       /\ BatchSizeOf(it.out[k]) = it.out[k].videos.shape[1]
                       /\ \/ BatchSizeOf(it.out[k]) = bs
                          \/ /\ k = Len(it.out)
                             /\ it.pos = n
                             /\ BatchSizeOf(it.out[k]) \in 1..bs
                /\ it.status = "done" => Len(it.out) = Ceil(n, bs)

\* Every step a pass under way takes either ends it (or raises) or fetches at
\* least one more of the length() indices of its order, which stays the same:
\* a pass takes at most length() + 1 steps.
PassAdvances ==
    \A h \in DOMAIN dls :
        (/\ dls[h].it.status = "active"
         /\ h \in DOMAIN dls'
         /\ dls'[h].it # dls[h].it)
        => \/ dls'[h].it.status \in {"done", "failed"}
           \/ /\ dls'[h].it.status = "active"
              /\ dls'[h].it.order = dls[h].it.order
              /\ dls'[h].it.pos > dls[h].it.pos
              /\ dls'[h].it.pos <= Len(dls[h].it.order)

\* C7: a pass terminates, every step of it ending it or fetching more of its
\* finitely many indices; at every moment the batches it has yielded number
\* ceil(pos / batch_size) for the pos indices fetched, each of batch_size
\* items but for a last one of 1 to batch_size items that exhausts the
\* indices; and a pass that has ended has yielded exactly
\* ceil(length() / batch_size) batches.
C7_BatchCount == []BatchCounts /\ [][PassAdvances]_vars

\* A pass over three clips in batches of two has ended with batches of 2 and 1.
C7_Witness ==
    \E h \in DOMAIN dls :
        /\ dls[h].it.status = "done"
        /\ dls[h].batch_size = 2
        /\ ClipCount(ds) = 3
        /\ Len(dls[h].it.out) = 2
        /\ BatchSizeOf(dls[h].it.out[1]) = 2
        /\ BatchSizeOf(dls[h].it.out[2]) = 1

\* ---- C8 ----
\* C8: a call of loader() adds a loader with no pass begun and leaves the
\* loaders made before as they are; a step of one loader's pass leaves the
\* other loaders as they are; every pass begins with nothing fetched; and a
\* pass that has ended has fetched each index below length() once.
C8_FreshLoader ==
    [][/\ Len(dls') = Len(dls) + 1 =>
              /\ dls'[Len(dls')].it = NoIter
              /\ \A h \in DOMAIN dls : dls'[h] = dls[h]
       /\ Len(dls') = Len(dls) =>
              \A h \in DOMAIN dls :
                  dls'[h] # dls[h] => \A g \in DOMAIN dls \ {h} : dls'[g] = dls[g]
       /\ \A h \in DOMAIN dls' :
              /\ (dls'[h].it.status = "active"
                  /\ (h \notin DOMAIN dls \/ dls[h].it.status # "active"))
                     => dls'[h].it.pos = 0 /\ dls'[h].it.fetched = <<>>
              /\ dls'[h].it.status = "done" =>
                     /\ Len(dls'[h].it.fetched) = ClipCount(ds')
                     /\ Range(dls'[h].it.fetched) = 0..(ClipCount(ds') - 1)
      ]_vars

\* The second loader has ended a pass over two clips while the first, made
\* before it, is one batch into its own.
C8_Witness ==
    /\ Len(dls) = 2
    /\ dls[1].it.status = "active" /\ dls[1].it.pos = 1
    /\ dls[2].it.status = "done" /\ Len(dls[2].it.fetched) = 2
    /\ ClipCount(ds) = 2

\* ---- C9 ----
\* C9: a call of item(index) with index below 0 or not below length() raised
\* an error and returned no clip, and the transform was not called.
C9_OutOfRange ==
    (ds # None /\ ret.op = "item" /\ (ret.idx < 0 \/ ret.idx >= ClipCount(ds))) =>
        /\ ret.exc # "None"
        /\ ret.video = NoTensor
        /\ ret.calls = 0

\* ---- C10 ----
\* C10: once the dataset is constructed no step changes its sample list, class
\* list, index mapping, metadata or clip collection, and once the wrapper is
\* constructed no step changes its batch size, shuffle flag or worker count.
C10_Frame ==
    [][/\ ds # None =>
              /\ ds'.samples = ds.samples
              /\ ds'.classes = ds.classes
              /\ ds'.indices = ds.indices
              /\ ds'.video_clips_metadata = ds.video_clips_metadata
              /\ ds'.video_clips = ds.video_clips
       /\ bdl # None =>
              /\ bdl'.batch_size = bdl.batch_size
              /\ bdl'.shuffle = bdl.shuffle
              /\ bdl'.num_workers = bdl.num_workers
      ]_vars

\* Two loaders were made, one has ended a pass of two batches, the other is in
\* one, and collate was the last direct call.
C10_Witness ==
    /\ ret.op = "collate"
    /\ Len(dls) = 2
    /\ dls[1].it.status = "done" /\ Len(dls[1].it.out) = 2
    /\ dls[2].it.status = "active" /\ dls[2].it.pos = 1

====
